---- MODULE Spec2Model ----
(***************************************************************************)
(* Model of the interactive element extraction pipeline of package dom     *)
(* (src/dom/enhanced.go): the orchestrator ExtractEnhancedElementMap with  *)
(* its two concurrent protocol calls, the snapshot parser, the             *)
(* interactivity classifier, the occlusion and containment filters, the    *)
(* cross-snapshot diff with dense indexing, the scripted fallback and the  *)
(* '*' marker of the token serializer.                                     *)
(*                                                                         *)
(* Pointers are modelled by positions: the map's Elements list holds the   *)
(* records, and BackendNodeMap / indexMap hold positions in that list, so  *)
(* "the same element" is "the same position".  An optional value (a nil    *)
(* pointer, a nil error) is a sequence of length 0 or 1.  Bounding boxes   *)
(* hold integer coordinates; the float ratio tests r >= 0.9 and r >= 0.99  *)
(* are done by cross multiplication.                                       *)
(***************************************************************************)
EXTENDS Integers, Sequences, FiniteSets, TLC

\* ------------------------------------------------------------------ bounds
\* Longest node list of a snapshot document.
MaxNodes == 2
\* Number of successive extraction calls of one run.
MaxCalls == 2

\* ------------------------------------------------------------- option type
None == <<>>
Some(x) == <<x>>
IsSome(o) == Len(o) > 0
Get(o) == o[1]

\* ---------------------------------------------------------------- geometry
Box(x, y, w, h) == [X |-> x, Y |-> y, Width |-> w, Height |-> h]
ZeroBox == Box(0, 0, 0, 0)
Max2(a, b) == IF a >= b THEN a ELSE b
Min2(a, b) == IF a <= b THEN a ELSE b
Area(b) == b.Width * b.Height
IsEmptyBox(b) == b.Width <= 0 \/ b.Height <= 0

\* Area of the axis-aligned intersection, 0 when the boxes do not overlap.
IntersectionArea(a, b) ==
    LET x1 == Max2(a.X, b.X)
        y1 == Max2(a.Y, b.Y)
        x2 == Min2(a.X + a.Width, b.X + b.Width)
        y2 == Min2(a.Y + a.Height, b.Y + b.Height)
    IN  IF x2 <= x1 \/ y2 <= y1 THEN 0 ELSE (x2 - x1) * (y2 - y1)

\* intersection / area(inner) >= 0.99 (defaultInteractiveConfig.ContainmentThreshold)
isContainedWithin(inner, outer) ==
    /\ IntersectionArea(inner, outer) > 0
    /\ Area(inner) > 0
    /\ 100 * IntersectionArea(inner, outer) >= 99 * Area(inner)

\* isSignificantlyOccluded asking for more than 90%.
isSignificantlyOccludedStrictly(target, occluder) ==
    /\ IntersectionArea(target, occluder) > 0
    /\ Area(target) > 0
    /\ 10 * IntersectionArea(target, occluder) > 9 * Area(target)

\* intersection / area(target) >= 0.9
isSignificantlyOccluded(target, occluder) ==
    /\ IntersectionArea(target, occluder) > 0
    /\ Area(target) > 0
    /\ 10 * IntersectionArea(target, occluder) >= 9 * Area(target)

\* -------------------------------------------------------------- classifier
interactiveTags ==
    {"a", "button", "input", "select", "textarea", "details", "summary",
     "option", "optgroup"}

interactiveRoles ==
    {"button", "link", "textbox", "checkbox", "radio", "combobox", "listbox",
     "menuitem", "menuitemcheckbox", "menuitemradio", "option", "tab",
     "switch", "slider", "spinbutton", "searchbox", "gridcell", "treeitem"}

containerTags ==
    {"div", "span", "li", "tr", "td", "img", "svg", "label", "nav", "header",
     "footer", "article", "section"}

shouldProcessTag(tagName) == tagName \in interactiveTags \/ tagName \in containerTags

\* strings.ToLower over the node names the snapshots use.
ToLower(s) ==
    CASE s = "A" -> "a"
      [] s = "BUTTON" -> "button"
      [] s = "DIV" -> "div"
      [] s = "SPAN" -> "span"
      [] s = "SVG" -> "svg"
      [] s = "P" -> "p"
      [] OTHER -> s

\* An AX property value is weakly typed: a bool, a string or nil.
BoolVal(b) == [t |-> "bool", b |-> b, s |-> ""]
StrVal(s) == [t |-> "string", b |-> FALSE, s |-> s]
NilVal == [t |-> "nil", b |-> FALSE, s |-> ""]
AXProp(name, value) == [Name |-> name, Value |-> value]

\* Tier 4: some property named focusable or editable holds the bool true.
AXAssertsFocus(axNode) ==
    \E k \in 1..Len(axNode.Properties) :
        /\ axNode.Properties[k].Name \in {"focusable", "editable"}
        /\ axNode.Properties[k].Value.t = "bool"
        /\ axNode.Properties[k].Value.b

\* isElementInteractive with the handler test inverted.
isElementInteractiveWithoutHandler(tagName, role, hasOnclick, tabindex, axNode) ==
    \/ tagName \in interactiveTags
    \/ role \in interactiveRoles
    \/ ~hasOnclick
    \/ (tabindex # "" /\ tabindex # "-1")
    \/ (IsSome(axNode) /\ AXAssertsFocus(Get(axNode)))

isElementInteractive(tagName, role, hasOnclick, tabindex, axNode) ==
    \/ tagName \in interactiveTags
    \/ role \in interactiveRoles
    \/ hasOnclick
    \/ (tabindex # "" /\ tabindex # "-1")
    \/ (IsSome(axNode) /\ AXAssertsFocus(Get(axNode)))

\* isElementInteractiveWithCursor without its fifth tier.
isElementInteractiveIgnoringCursor(tagName, role, hasOnclick, tabindex, cursor, axNode) ==
    isElementInteractive(tagName, role, hasOnclick, tabindex, axNode)

isElementInteractiveWithCursor(tagName, role, hasOnclick, tabindex, cursor, axNode) ==
    \/ isElementInteractive(tagName, role, hasOnclick, tabindex, axNode)
    \/ cursor = "pointer"

\* ------------------------------------------------------- accessibility index
\* One node of the Accessibility.getFullAXTree payload (CDPAXNode): Role is
\* an optional weakly typed value, Properties a list of named values.
AXNode(id, role, props) == [BackendDOMNodeID |-> id, Role |-> role, Properties |-> props]

\* The lookup is a function from backend node ids to AX nodes; a later node
\* with the same id replaces an earlier one, ids <= 0 are skipped.
RECURSIVE IndexAXNodes(_, _)
IndexAXNodes(nodes, lookup) ==
    IF nodes = <<>> THEN lookup
    ELSE LET node == Head(nodes)
             next == IF node.BackendDOMNodeID > 0
                     THEN [id \in DOMAIN lookup \cup {node.BackendDOMNodeID} |->
                              IF id = node.BackendDOMNodeID THEN node ELSE lookup[id]]
                     ELSE lookup
         IN  IndexAXNodes(Tail(nodes), next)

EmptyAXLookup == [id \in {} |-> AXNode(0, NilVal, <<>>)]

\* axLookup[backendNodeID]: nil when the id is no key.
AXLookupGet(axLookup, id) ==
    IF id \in DOMAIN axLookup THEN Some(axLookup[id]) ELSE None

\* The result of the AX call is used only when the call returned no error,
\* the payload is not empty and it decodes.
BuildAXLookupIgnoringErrors(axRes) == IndexAXNodes(axRes.nodes, EmptyAXLookup)

BuildAXLookup(axRes) ==
    IF axRes.kind = "ok" THEN IndexAXNodes(axRes.nodes, EmptyAXLookup)
    ELSE EmptyAXLookup

\* One property of the merge loop, applied to the element.
ApplyAXProp(el, prop) ==
    IF prop.Value.t # "bool" THEN el
    ELSE CASE prop.Name = "focusable" ->
                [el EXCEPT !.AXFocusable = prop.Value.b, !.IsFocusable = prop.Value.b]
           [] prop.Name = "editable" -> [el EXCEPT !.AXEditable = prop.Value.b]
           [] prop.Name = "disabled" ->
                [el EXCEPT !.AXDisabled = prop.Value.b,
                           !.IsEnabled = IF prop.Value.b THEN FALSE ELSE @]
           [] OTHER -> el

RECURSIVE ApplyAXProps(_, _)
ApplyAXProps(el, props) ==
    IF props = <<>> THEN el
    ELSE ApplyAXProps(ApplyAXProp(el, Head(props)), Tail(props))

mergeAXInfo(el, axNode) ==
    LET withRole == IF axNode.Role.t = "string" /\ el.Role = ""
                    THEN [el EXCEPT !.Role = axNode.Role.s] ELSE el
    IN  ApplyAXProps(withRole, axNode.Properties)

\* ----------------------------------------------------------- snapshot parser
\* One node of documents[0], columns joined per node index: the node type,
\* the name, the backend node id, the attribute pairs and, when a layout
\* record names the node, its bounds, paint order and computed styles
\* (display, visibility, opacity, cursor, in that order).
Layout(bounds, paintOrder, styles) ==
    [bounds |-> bounds, paintOrder |-> paintOrder, styles |-> styles]

Node(nodeType, nodeName, backendNodeId, attributes, layout) ==
    [nodeType |-> nodeType, nodeName |-> nodeName, backendNodeId |-> backendNodeId,
     attributes |-> attributes, layout |-> layout]

\* getAttr: the value of the first attribute pair with that name, else "".
RECURSIVE getAttr(_, _)
getAttr(attributes, attrName) ==
    IF attributes = <<>> THEN ""
    ELSE IF Head(attributes)[1] = attrName THEN Head(attributes)[2]
    ELSE getAttr(Tail(attributes), attrName)

\* Style k of a layout record, "" when the record holds fewer styles.
StyleAt(styles, k) == IF Len(styles) >= k THEN styles[k] ELSE ""

\* isVisible: non-empty bounds, unless a computed style hides the node.
LayoutVisible(layout) ==
    /\ IsSome(layout.bounds)
    /\ Get(layout.bounds).Width > 0
    /\ Get(layout.bounds).Height > 0
    /\ StyleAt(layout.styles, 1) # "none"
    /\ StyleAt(layout.styles, 2) # "hidden"
    /\ StyleAt(layout.styles, 3) # "0"

\* isEnabled := getAttr("disabled") == "" && getAttr("aria-disabled") != "true"
ParseIsEnabled(attributes) ==
    getAttr(attributes, "disabled") = "" /\ getAttr(attributes, "aria-disabled") # "true"

\* The element built for one processed node.  ElementBackendNodeID is the
\* BackendNodeID field of the embedded base Element, which the parser's
\* composite literal leaves at zero; BackendNodeID is the field of
\* EnhancedElement that shadows it.
ParseNode(node, axLookup) ==
    LET tagName == ToLower(node.nodeName)
        hasLayout == IsSome(node.layout)
        layout == Get(node.layout)
        cursor == IF hasLayout THEN StyleAt(layout.styles, 4) ELSE ""
        role == getAttr(node.attributes, "role")
        axNode == AXLookupGet(axLookup, node.backendNodeId)
        el == [ Index |-> 0,
                ElementBackendNodeID |-> 0,
                TagName |-> tagName,
                Role |-> role,
                IsVisible |-> hasLayout /\ LayoutVisible(layout),
                IsEnabled |-> ParseIsEnabled(node.attributes),
                IsInteractive |->
                    isElementInteractiveWithCursor(tagName, role,
                        getAttr(node.attributes, "onclick") # "",
                        getAttr(node.attributes, "tabindex"), cursor, axNode),
                IsFocusable |-> FALSE,
                BoundingBox |-> IF hasLayout /\ IsSome(layout.bounds)
                                THEN Get(layout.bounds) ELSE ZeroBox,
                BackendNodeID |-> node.backendNodeId,
                PaintOrder |-> IF hasLayout THEN layout.paintOrder ELSE 0,
                ComputedCursor |-> cursor,
                IsNew |-> FALSE,
                IsOccluded |-> FALSE,
                IsContained |-> FALSE,
                AXFocusable |-> FALSE,
                AXEditable |-> FALSE,
                AXDisabled |-> FALSE ]
    IN  IF IsSome(axNode) THEN mergeAXInfo(el, Get(axNode)) ELSE el

\* Element nodes (type 1) with a processed tag, in node order.
RECURSIVE ParseNodes(_, _)
ParseNodes(nodes, axLookup) ==
    IF nodes = <<>> THEN <<>>
    ELSE LET node == Head(nodes)
             rest == ParseNodes(Tail(nodes), axLookup)
         IN  IF node.nodeType = 1 /\ shouldProcessTag(ToLower(node.nodeName))
             THEN <<ParseNode(node, axLookup)>> \o rest
             ELSE rest

\* sort.Slice with less(i, j) = PaintOrder[i] > PaintOrder[j]: for the list
\* lengths of the model (at most 12) the library sorts by insertion, which
\* keeps the node order of elements of equal paint order.
RECURSIVE InsertByPaintOrder(_, _)
InsertByPaintOrder(sorted, el) ==
    IF sorted = <<>> THEN <<el>>
    ELSE IF Head(sorted).PaintOrder >= el.PaintOrder
         THEN <<Head(sorted)>> \o InsertByPaintOrder(Tail(sorted), el)
         ELSE <<el>> \o sorted

\* The candidates left in node order.
SortNotCalled(elements) == elements

RECURSIVE SortByPaintOrder(_)
SortByPaintOrder(elements) ==
    IF elements = <<>> THEN <<>>
    ELSE InsertByPaintOrder(SortByPaintOrder(SubSeq(elements, 1, Len(elements) - 1)),
                            elements[Len(elements)])

\* The inner loop scanning every other element of the list.
AllOthers(elements, i) == (1..Len(elements)) \ {i}

\* The inner loop of markOccludedElements: for j := 0; j < i; j++.
HigherElements(elements, i) == 1..(i - 1)

\* The positions the inner loop stops at for element i: the non-empty elements
\* it scans that cover at least 90% of the non-empty box of element i.
Occluders(elements, i) ==
    {j \in HigherElements(elements, i) :
        /\ ~IsEmptyBox(elements[i].BoundingBox)
        /\ ~IsEmptyBox(elements[j].BoundingBox)
        /\ isSignificantlyOccluded(elements[i].BoundingBox,
                                   elements[j].BoundingBox)}

\* The element on which the inner loop breaks for element i, 0 when it runs
\* to its end.
Occluder(elements, i) ==
    IF Occluders(elements, i) = {} THEN 0
    ELSE CHOOSE j \in Occluders(elements, i) :
             \A k \in Occluders(elements, i) : j <= k

\* Element i is occluded when a non-empty element before it in the sorted
\* list covers at least 90% of its non-empty box.
markOccludedElements(elements) ==
    [i \in 1..Len(elements) |->
        [elements[i] EXCEPT !.IsOccluded = Occluder(elements, i) # 0]]

\* markContainedElements accepting a parent of equal area.
markContainedElementsNonStrict(elements) ==
    [i \in 1..Len(elements) |->
        [elements[i] EXCEPT !.IsContained =
            /\ ~IsEmptyBox(elements[i].BoundingBox)
            /\ \E j \in 1..Len(elements) :
                  /\ i # j
                  /\ elements[j].IsInteractive
                  /\ ~IsEmptyBox(elements[j].BoundingBox)
                  /\ isContainedWithin(elements[i].BoundingBox,
                                       elements[j].BoundingBox)
                  /\ Area(elements[i].BoundingBox) <= Area(elements[j].BoundingBox)]]

\* Element i is contained when another interactive, non-empty element covers
\* at least 99% of its non-empty box and has a strictly larger area.
markContainedElements(elements) ==
    [i \in 1..Len(elements) |->
        [elements[i] EXCEPT !.IsContained =
            /\ ~IsEmptyBox(elements[i].BoundingBox)
            /\ \E j \in 1..Len(elements) :
                  /\ i # j
                  /\ elements[j].IsInteractive
                  /\ ~IsEmptyBox(elements[j].BoundingBox)
                  /\ isContainedWithin(elements[i].BoundingBox,
                                       elements[j].BoundingBox)
                  /\ Area(elements[i].BoundingBox) < Area(elements[j].BoundingBox)]]

\* The snapshot payload decodes and holds at least one document.
SnapshotDecodes(snapRes) == snapRes.kind = "ok" /\ Len(snapRes.documents) > 0

\* parseSnapshotResponse on a payload that decodes: documents[0] only.
parseSnapshotResponse(snapRes, axLookup) ==
    markContainedElements(
        markOccludedElements(
            SortByPaintOrder(ParseNodes(snapRes.documents[1], axLookup))))

\* ------------------------------------------------------ enhanced element map
NewEnhancedElementMap ==
    [ PageURL |-> "", PageTitle |-> "",
      Elements |-> <<>>,
      indexMap |-> [i \in {} |-> 0],
      BackendNodeMap |-> [id \in {} |-> 0],
      PreviousNodeIDs |-> {},
      TotalElements |-> 0,
      FilteredByPaint |-> 0,
      FilteredByContain |-> 0,
      FilteredByHidden |-> 0 ]

\* m[k] := v on a Go map held as a function.
MapPut(f, k, v) == [x \in DOMAIN f \cup {k} |-> IF x = k THEN v ELSE f[x]]

\* AddEnhanced: append, index -> element, and backend id -> element when the
\* id is positive (a later element with the same id replaces the entry).
AddEnhanced(m, el) ==
    LET pos == Len(m.Elements) + 1
    IN  [m EXCEPT !.Elements = Append(@, el),
                  !.indexMap = MapPut(@, el.Index, pos),
                  !.BackendNodeMap = IF el.BackendNodeID > 0
                                     THEN MapPut(@, el.BackendNodeID, pos) ELSE @]

\* ------------------------------------------------- filter, diff and indexing
\* A candidate that is not interactive or not visible is dropped as hidden.
SkipHiddenBoth(el) == ~el.IsInteractive /\ ~el.IsVisible

SkipHidden(el) == ~el.IsInteractive \/ ~el.IsVisible

\* el.Index = index
AssignIndexOffByOne(el, index) == [el EXCEPT !.Index = index + 1]

AssignIndex(el, index) == [el EXCEPT !.Index = index]

\* New when a prior map was passed and the id is none of its keys.
MarkNewIgnoringPrior(el, previousNodeIDs, hasPrevious) ==
    [el EXCEPT !.IsNew = el.BackendNodeID \notin previousNodeIDs]

MarkNew(el, previousNodeIDs, hasPrevious) ==
    [el EXCEPT !.IsNew = el.BackendNodeID \notin previousNodeIDs /\ hasPrevious]

\* The statistics written after the loop.
SetTotalElements(m, elements) == [m EXCEPT !.TotalElements = Len(elements)]

\* The loop over the parsed candidates; index is the loop's counter.
RECURSIVE FilterLoop(_, _, _, _)
FilterLoop(elements, m, index, hasPrevious) ==
    IF elements = <<>> THEN m
    ELSE LET el == Head(elements)
             rest == Tail(elements)
         IN  IF SkipHidden(el)
             THEN FilterLoop(rest, [m EXCEPT !.FilteredByHidden = @ + 1], index, hasPrevious)
             ELSE IF el.IsOccluded
             THEN FilterLoop(rest, [m EXCEPT !.FilteredByPaint = @ + 1], index, hasPrevious)
             ELSE IF el.IsContained
             THEN FilterLoop(rest, [m EXCEPT !.FilteredByContain = @ + 1], index, hasPrevious)
             ELSE FilterLoop(rest,
                     AddEnhanced(m, MarkNew(AssignIndex(el, index),
                                            m.PreviousNodeIDs, hasPrevious)),
                     index + 1, hasPrevious)

FilterAndIndex(elements, m, hasPrevious) ==
    SetTotalElements(FilterLoop(elements, m, 0, hasPrevious), elements)

\* ------------------------------------------------------------ return values
\* (map, error) of a Go call: each side nil or set.
Returned(m) == [map |-> Some(m), err |-> None]
Failed(e) == [map |-> None, err |-> Some(e)]
NothingReturned == [map |-> None, err |-> None]

\* ------------------------------------------------------------ scripted fallback
\* A base element of the scripted extractor, wrapped as an enhanced element:
\* the base fields are copied, the outer backend id is set from the base one
\* and every other enhanced field keeps its zero value.
WrapBasic(el) ==
    [ Index |-> el.Index,
      ElementBackendNodeID |-> el.BackendNodeID,
      TagName |-> el.TagName,
      Role |-> el.Role,
      IsVisible |-> el.IsVisible,
      IsEnabled |-> el.IsEnabled,
      IsInteractive |-> el.IsInteractive,
      IsFocusable |-> el.IsFocusable,
      BoundingBox |-> el.BoundingBox,
      BackendNodeID |-> el.BackendNodeID,
      PaintOrder |-> 0,
      ComputedCursor |-> "",
      IsNew |-> FALSE,
      IsOccluded |-> FALSE,
      IsContained |-> FALSE,
      AXFocusable |-> FALSE,
      AXEditable |-> FALSE,
      AXDisabled |-> FALSE ]

RECURSIVE WrapAll(_, _)
WrapAll(basicElements, m) ==
    IF basicElements = <<>> THEN m
    ELSE WrapAll(Tail(basicElements), AddEnhanced(m, WrapBasic(Head(basicElements))))

\* extractEnhancedElementMapJS that hands back the map together with the error.
extractEnhancedElementMapJSKeepingMap(basicRes, elementMap) ==
    IF basicRes.kind # "ok"
    THEN [map |-> Some(elementMap), err |-> Some("fallback failed")]
    ELSE Returned(WrapAll(basicRes.Elements,
                [elementMap EXCEPT !.PageURL = basicRes.PageURL,
                                   !.PageTitle = basicRes.PageTitle]))

extractEnhancedElementMapJS(basicRes, elementMap) ==
    IF basicRes.kind # "ok"
    THEN Failed("fallback failed")
    ELSE Returned(WrapAll(basicRes.Elements,
                [elementMap EXCEPT !.PageURL = basicRes.PageURL,
                                   !.PageTitle = basicRes.PageTitle]))

\* ------------------------------------------------------------ token serializer
\* Positions of the elements ToTokenStringEnhanced emits: the visible ones,
\* and only the first maxElements of them when maxElements > 0.
VisibleBefore(m, i) == Cardinality({j \in 1..(i - 1) : m.Elements[j].IsVisible})

Emitted(m, maxElements) ==
    {i \in 1..Len(m.Elements) :
        /\ m.Elements[i].IsVisible
        /\ (maxElements > 0 => VisibleBefore(m, i) < maxElements)}

\* The prefix of the line of the element at position i: the enhanced element
\* is looked up under the BASE element's backend node id.
LinePrefix(m, i) ==
    LET id == m.Elements[i].ElementBackendNodeID
    IN  IF id \in DOMAIN m.BackendNodeMap /\ m.Elements[m.BackendNodeMap[id]].IsNew
        THEN "*" ELSE ""

\* The emitted lines, in order: position, prefix, index and tag of each.
RECURSIVE TokenLinesFrom(_, _, _)
TokenLinesFrom(m, maxElements, i) ==
    IF i > Len(m.Elements) THEN <<>>
    ELSE IF i \in Emitted(m, maxElements)
         THEN <<[pos |-> i, prefix |-> LinePrefix(m, i),
                 index |-> m.Elements[i].Index, tag |-> m.Elements[i].TagName]>>
              \o TokenLinesFrom(m, maxElements, i + 1)
         ELSE TokenLinesFrom(m, maxElements, i + 1)

ToTokenStringEnhanced(m, maxElements) == TokenLinesFrom(m, maxElements, 1)

\* ------------------------------------------------------------------- inputs
\* Computed styles of a layout record: display, visibility, opacity, cursor.
StylesAuto == <<"block", "visible", "1", "auto">>
StylesPointer == <<"block", "visible", "1", "pointer">>

\* A link, a second link carrying the same backend node id, a button, a
\* click-handling span inside the button, a full-viewport overlay without a
\* backend id, a div with no signal of its own, and a text node.
nLink == Node(1, "A", 101, << <<"href", "/x">> >>,
              Some(Layout(Some(Box(10, 20, 80, 24)), 10, StylesAuto)))
nDup == Node(1, "A", 101, << <<"href", "/y">> >>,
             Some(Layout(Some(Box(200, 200, 50, 20)), 7, StylesAuto)))
nButton == Node(1, "BUTTON", 102, <<>>,
                Some(Layout(Some(Box(0, 0, 100, 40)), 5, StylesAuto)))
nIcon == Node(1, "SPAN", 103, << <<"onclick", "go()">> >>,
              Some(Layout(Some(Box(8, 8, 24, 24)), 6, StylesAuto)))
nOverlay == Node(1, "DIV", 0, <<>>,
                 Some(Layout(Some(Box(0, 0, 1280, 720)), 1000, StylesPointer)))
nPlain == Node(1, "DIV", 105, <<>>,
               Some(Layout(Some(Box(300, 300, 40, 40)), 3, StylesAuto)))
nText == Node(3, "#text", 106, <<>>, None)

NodePool == {nLink, nDup, nButton, nIcon, nOverlay, nPlain, nText}

SeqsUpTo(S, n) == UNION {[1..k -> S] : k \in 0..n}

\* Outcomes of DOMSnapshot.captureSnapshot: the call fails, the payload does
\* not decode, it holds no document, or it holds one document.
SnapshotPending == [kind |-> "none", documents |-> <<>>]
SnapshotCallError == [kind |-> "err", documents |-> <<>>]
SnapshotUndecodable == [kind |-> "bad", documents |-> <<>>]
SnapshotNoDocuments == [kind |-> "ok", documents |-> <<>>]
SnapshotOf(nodes) == [kind |-> "ok", documents |-> <<nodes>>]

SnapshotResults ==
    {SnapshotCallError, SnapshotUndecodable, SnapshotNoDocuments}
        \cup {SnapshotOf(nodes) : nodes \in SeqsUpTo(NodePool, MaxNodes)}

\* AX trees: node 105 is a focusable button, or a button with no property.
axFocusable == <<AXNode(105, StrVal("button"), <<AXProp("focusable", BoolVal(TRUE))>>)>>
axRoleOnly == <<AXNode(105, StrVal("button"), <<>>)>>

\* Outcomes of Accessibility.getFullAXTree: the call fails, the payload is
\* empty, it does not decode (nodes holds what a partial decode leaves
\* behind), or it decodes.
AXPending == [kind |-> "none", nodes |-> <<>>]
AXCallError == [kind |-> "err", nodes |-> <<>>]
AXEmptyPayload == [kind |-> "empty", nodes |-> <<>>]
AXUndecodable == [kind |-> "bad", nodes |-> axFocusable]
AXOf(nodes) == [kind |-> "ok", nodes |-> nodes]

AXResults == {AXCallError, AXEmptyPayload, AXUndecodable, AXOf(axFocusable), AXOf(axRoleOnly)}

\* Base elements of the scripted extractor (ExtractElementMap): visible,
\* interactive, densely indexed from 0.
BasicElement(index, tag, id, box) ==
    [ Index |-> index, BackendNodeID |-> id, TagName |-> tag, Role |-> "",
      IsVisible |-> TRUE, IsEnabled |-> TRUE, IsInteractive |-> TRUE,
      IsFocusable |-> FALSE, BoundingBox |-> box ]

BasicElements ==
    << BasicElement(0, "a", 101, Box(10, 20, 80, 24)),
       BasicElement(1, "button", 107, Box(0, 0, 100, 40)) >>

BasicPending == [kind |-> "none", PageURL |-> "", PageTitle |-> "", Elements |-> <<>>]
BasicError == [kind |-> "err", PageURL |-> "", PageTitle |-> "", Elements |-> <<>>]
BasicMapOf(els) == [kind |-> "ok", PageURL |-> "http://page", PageTitle |-> "Page", Elements |-> els]

BasicResults ==
    {BasicError} \cup {BasicMapOf(SubSeq(BasicElements, 1, n)) : n \in 0..Len(BasicElements)}

\* -------------------------------------------------------------------- state
VARIABLES
    pc,            \* position of ExtractEnhancedElementMap
    calls,         \* extraction calls started so far
    previousMap,   \* the previousMap argument: nil or the prior map
    ctxCancelled,  \* the caller's context is cancelled
    elementMap,    \* the map under construction
    snapCall,      \* goroutine 1: "idle", "ready", "pending", "done"
    axCall,        \* goroutine 2, likewise
    snapshotRes,   \* snapshotData / snapshotErr
    axTreeRes,     \* axTreeData / axTreeErr
    axLookup,      \* the AX index
    elements,      \* the parsed candidates
    basicRes,      \* what the scripted extractor returned
    ret,           \* the (map, error) the call returned
    tokens,        \* the lines of the last ToTokenStringEnhanced, if any
    firstDone,     \* history kept by SpecOrder: the goroutine that returned first
    browser,       \* "up", or "stuck" once the browser answers nothing more
    annPc,         \* position of Annotate
    annArgs,       \* Annotate's arguments: imgData, elementMap, cfg
    annImg,        \* Annotate's decoded image and the canvas drawn on
    annRet         \* the (bytes, error) Annotate returned

annVars == <<annPc, annArgs, annImg, annRet>>

extractVars == <<pc, calls, previousMap, ctxCancelled, elementMap, snapCall, axCall,
                 snapshotRes, axTreeRes, axLookup, elements, basicRes, ret, tokens,
                 firstDone, browser>>

vars == <<pc, calls, previousMap, ctxCancelled, elementMap, snapCall, axCall,
          snapshotRes, axTreeRes, axLookup, elements, basicRes, ret, tokens,
          firstDone, browser, annVars>>

\* What Annotate hands back: the bytes or the error.
NoBytesReturned == [bytes |-> None, err |-> None]
ReturnedBytes(b) == [bytes |-> Some(b), err |-> None]
FailedWith(e) == [bytes |-> None, err |-> Some(e)]

\* Annotate has not been called.
AnnotateIdle ==
    /\ annPc = "idle"
    /\ annArgs = None
    /\ annImg = None
    /\ annRet = NoBytesReturned

Init ==
    /\ pc = "idle"
    /\ calls = 0
    /\ previousMap = None
    /\ ctxCancelled = FALSE
    /\ elementMap = NewEnhancedElementMap
    /\ snapCall = "idle"
    /\ axCall = "idle"
    /\ snapshotRes = SnapshotPending
    /\ axTreeRes = AXPending
    /\ axLookup = EmptyAXLookup
    /\ elements = <<>>
    /\ basicRes = BasicPending
    /\ ret = NothingReturned
    /\ tokens = None
    /\ firstDone = "none"
    /\ browser = "up"
    /\ AnnotateIdle

\* The prior maps a caller can pass: none, or the map the last call returned.
\* Of a prior map the extraction reads the BackendNodeMap alone, and that is
\* what the argument keeps.
PriorMaps ==
    {None} \cup (IF IsSome(ret.map)
                 THEN {Some([BackendNodeMap |-> Get(ret.map).BackendNodeMap])}
                 ELSE {})

\* ExtractEnhancedElementMap is entered: the map is created and page.Info()
\* is asked for.
Call ==
    /\ pc \in {"idle", "done"}
    /\ calls < MaxCalls
    /\ \E prev \in PriorMaps : previousMap' = prev
    /\ calls' = calls + 1
    /\ pc' = "info"
    /\ ctxCancelled' = FALSE
    /\ elementMap' = NewEnhancedElementMap
    /\ snapCall' = "idle"
    /\ axCall' = "idle"
    /\ snapshotRes' = SnapshotPending
    /\ axTreeRes' = AXPending
    /\ axLookup' = EmptyAXLookup
    /\ elements' = <<>>
    /\ basicRes' = BasicPending
    /\ ret' = NothingReturned
    /\ tokens' = None
    /\ firstDone' = "none"
    /\ UNCHANGED <<annVars, browser>>

\* The ids of the prior map's BackendNodeMap.
PreviousIDs(prev) == IF IsSome(prev) THEN DOMAIN Get(prev).BackendNodeMap ELSE {}

\* page.Info() returns (its failure is tolerated), the prior ids are copied
\* and the two goroutines are started.
PageInfo ==
    /\ pc = "info"
    /\ \E ok \in BOOLEAN :
          elementMap' = [elementMap EXCEPT
              !.PageURL = IF ok THEN "http://page" ELSE @,
              !.PageTitle = IF ok THEN "Page" ELSE @,
              !.PreviousNodeIDs = PreviousIDs(previousMap)]
    /\ snapCall' = "ready"
    /\ axCall' = "ready"
    /\ pc' = "wait"
    /\ UNCHANGED <<calls, previousMap, ctxCancelled, snapshotRes, axTreeRes,
                   axLookup, elements, basicRes, ret, tokens, firstDone,
                   annVars, browser>>

\* Goroutine 1 issues DOMSnapshot.captureSnapshot.
IssueSnapshot ==
    /\ snapCall = "ready"
    /\ snapCall' = "pending"
    /\ UNCHANGED <<pc, calls, previousMap, ctxCancelled, elementMap, axCall,
                   snapshotRes, axTreeRes, axLookup, elements, basicRes, ret, tokens, firstDone,
                   annVars, browser>>

\* The snapshot call returns; with the context cancelled it returns the
\* context's error.
ReturnSnapshot ==
    /\ snapCall = "pending"
    /\ \E r \in SnapshotResults :
          /\ ctxCancelled => r = SnapshotCallError
          /\ snapshotRes' = r
    /\ snapCall' = "done"
    /\ UNCHANGED <<pc, calls, previousMap, ctxCancelled, elementMap, axCall,
                   axTreeRes, axLookup, elements, basicRes, ret, tokens, firstDone,
                   annVars, browser>>

\* Goroutine 2 issues Accessibility.getFullAXTree.
IssueAXTree ==
    /\ axCall = "ready"
    /\ axCall' = "pending"
    /\ UNCHANGED <<pc, calls, previousMap, ctxCancelled, elementMap, snapCall,
                   snapshotRes, axTreeRes, axLookup, elements, basicRes, ret, tokens, firstDone,
                   annVars, browser>>

ReturnAXTree ==
    /\ axCall = "pending"
    /\ \E r \in AXResults :
          /\ ctxCancelled => r = AXCallError
          /\ axTreeRes' = r
    /\ axCall' = "done"
    /\ UNCHANGED <<pc, calls, previousMap, ctxCancelled, elementMap, snapCall,
                   snapshotRes, axLookup, elements, basicRes, ret, tokens, firstDone,
                   annVars, browser>>

\* wg.Wait() returns after one goroutine alone.
WaitGroupDoneFirst == snapCall = "done"

\* wg.Wait() returns when both goroutines have called Done.
WaitGroupDone == snapCall = "done" /\ axCall = "done"

\* The extraction goes on without calling wg.Wait().
WaitNotCalled ==
    /\ pc = "wait"
    /\ pc' = "axindex"
    /\ UNCHANGED <<calls, previousMap, ctxCancelled, elementMap, snapCall, axCall,
                   snapshotRes, axTreeRes, axLookup, elements, basicRes, ret, tokens,
                   firstDone, annVars, browser>>

Wait ==
    /\ pc = "wait"
    /\ WaitGroupDone
    /\ pc' = "axindex"
    /\ UNCHANGED <<calls, previousMap, ctxCancelled, elementMap, snapCall, axCall,
                   snapshotRes, axTreeRes, axLookup, elements, basicRes, ret, tokens, firstDone,
                   annVars, browser>>

\* The AX lookup is built.
BuildAXIndex ==
    /\ pc = "axindex"
    /\ axLookup' = BuildAXLookup(axTreeRes)
    /\ pc' = "dispatch"
    /\ UNCHANGED <<calls, previousMap, ctxCancelled, elementMap, snapCall, axCall,
                   snapshotRes, axTreeRes, elements, basicRes, ret, tokens, firstDone,
                   annVars, browser>>

\* snapshotErr != nil: the scripted fallback is called.
SnapshotFailed ==
    /\ pc = "dispatch"
    /\ snapshotRes.kind = "err"
    /\ pc' = "fallback"
    /\ UNCHANGED <<calls, previousMap, ctxCancelled, elementMap, snapCall, axCall,
                   snapshotRes, axTreeRes, axLookup, elements, basicRes, ret, tokens, firstDone,
                   annVars, browser>>

\* parseSnapshotResponse fails: the scripted fallback is called.
ParseFailed ==
    /\ pc = "dispatch"
    /\ snapshotRes.kind # "err"
    /\ ~SnapshotDecodes(snapshotRes)
    /\ pc' = "fallback"
    /\ UNCHANGED <<calls, previousMap, ctxCancelled, elementMap, snapCall, axCall,
                   snapshotRes, axTreeRes, axLookup, elements, basicRes, ret, tokens, firstDone,
                   annVars, browser>>

\* parseSnapshotResponse succeeds.
ParseSnapshot ==
    /\ pc = "dispatch"
    /\ SnapshotDecodes(snapshotRes)
    /\ elements' = parseSnapshotResponse(snapshotRes, axLookup)
    /\ pc' = "filter"
    /\ UNCHANGED <<calls, previousMap, ctxCancelled, elementMap, snapCall, axCall,
                   snapshotRes, axTreeRes, axLookup, basicRes, ret, tokens, firstDone,
                   annVars, browser>>

\* The filter loop runs and the map is returned.
FilterElements ==
    /\ pc = "filter"
    /\ elementMap' = FilterAndIndex(elements, elementMap, IsSome(previousMap))
    /\ ret' = Returned(elementMap')
    /\ pc' = "done"
    /\ UNCHANGED <<calls, previousMap, ctxCancelled, snapCall, axCall,
                   snapshotRes, axTreeRes, axLookup, elements, basicRes, tokens, firstDone,
                   annVars, browser>>

\* The scripted extractor returns (with the context cancelled, its error)
\* and extractEnhancedElementMapJS returns to the caller.
FallbackReturn ==
    /\ pc = "fallback"
    /\ \E r \in BasicResults :
          /\ ctxCancelled => r = BasicError
          /\ basicRes' = r
    /\ ret' = extractEnhancedElementMapJS(basicRes', elementMap)
    /\ elementMap' = IF basicRes'.kind = "ok" THEN Get(ret'.map) ELSE elementMap
    /\ pc' = "done"
    /\ UNCHANGED <<calls, previousMap, ctxCancelled, snapCall, axCall,
                   snapshotRes, axTreeRes, axLookup, elements, tokens, firstDone,
                   annVars, browser>>

\* The caller cancels the context while the extraction is in progress.
Cancel ==
    /\ pc \notin {"idle", "done"}
    /\ ~ctxCancelled
    /\ ctxCancelled' = TRUE
    /\ UNCHANGED <<pc, calls, previousMap, elementMap, snapCall, axCall,
                   snapshotRes, axTreeRes, axLookup, elements, basicRes, ret, tokens, firstDone,
                   annVars, browser>>

\* A consumer serializes the returned map.
Serialize ==
    /\ pc = "done"
    /\ IsSome(ret.map)
    /\ tokens = None
    /\ \E maxElements \in 0..1 :
          tokens' = Some([maxElements |-> maxElements,
                          lines |-> ToTokenStringEnhanced(Get(ret.map), maxElements)])
    /\ UNCHANGED <<pc, calls, previousMap, ctxCancelled, elementMap, snapCall, axCall,
                   snapshotRes, axTreeRes, axLookup, elements, basicRes, ret,
                   firstDone, annVars, browser>>

Next ==
    \/ Call
    \/ PageInfo
    \/ IssueSnapshot
    \/ ReturnSnapshot
    \/ IssueAXTree
    \/ ReturnAXTree
    \/ Wait
    \/ BuildAXIndex
    \/ SnapshotFailed
    \/ ParseFailed
    \/ ParseSnapshot
    \/ FilterElements
    \/ FallbackReturn
    \/ Cancel
    \/ Serialize

Spec == Init /\ [][Next]_vars

\* ------------------------------------------------ the order of the two calls
\* The same extraction with the order of the two returns noted in firstDone;
\* the consumer of the map is left out.
ReturnSnapshotNoted ==
    /\ snapCall = "pending"
    /\ \E r \in SnapshotResults :
          /\ ctxCancelled => r = SnapshotCallError
          /\ snapshotRes' = r
    /\ snapCall' = "done"
    /\ firstDone' = IF firstDone = "none" THEN "snapshot" ELSE firstDone
    /\ UNCHANGED <<pc, calls, previousMap, ctxCancelled, elementMap, axCall,
                   axTreeRes, axLookup, elements, basicRes, ret, tokens,
                   annVars, browser>>

ReturnAXTreeNoted ==
    /\ axCall = "pending"
    /\ \E r \in AXResults :
          /\ ctxCancelled => r = AXCallError
          /\ axTreeRes' = r
    /\ axCall' = "done"
    /\ firstDone' = IF firstDone = "none" THEN "ax" ELSE firstDone
    /\ UNCHANGED <<pc, calls, previousMap, ctxCancelled, elementMap, snapCall,
                   snapshotRes, axLookup, elements, basicRes, ret, tokens,
                   annVars, browser>>

NextOrder ==
    \/ Call
    \/ PageInfo
    \/ IssueSnapshot
    \/ ReturnSnapshotNoted
    \/ IssueAXTree
    \/ ReturnAXTreeNoted
    \/ Wait
    \/ BuildAXIndex
    \/ SnapshotFailed
    \/ ParseFailed
    \/ ParseSnapshot
    \/ FilterElements
    \/ FallbackReturn
    \/ Cancel

SpecOrder == Init /\ [][NextOrder]_vars

\* ------------------------------------------- a browser that stops answering
\* page.Info() and page.Call(ctx, ...) are round trips to the browser.  A
\* round trip returns when the browser answers; page.Call returns as well when
\* its ctx is done.  page.Info() is not handed ctx: it runs under the context
\* the page handle carries.  Once the browser is stuck it answers nothing
\* more.
BrowserStops ==
    /\ browser = "up"
    /\ browser' = "stuck"
    /\ UNCHANGED <<pc, calls, previousMap, ctxCancelled, elementMap, snapCall, axCall,
                   snapshotRes, axTreeRes, axLookup, elements, basicRes, ret, tokens,
                   firstDone, annVars>>

\* page.Info() returns because the browser answered.
PageInfoAnswered == browser = "up" /\ PageInfo

\* page.Info() returns an error because the page handle's own context ended;
\* nothing in ExtractEnhancedElementMap makes that happen.
PageInfoAbandoned ==
    /\ pc = "info"
    /\ browser = "stuck"
    /\ elementMap' = [elementMap EXCEPT !.PreviousNodeIDs = PreviousIDs(previousMap)]
    /\ snapCall' = "ready"
    /\ axCall' = "ready"
    /\ pc' = "wait"
    /\ UNCHANGED <<calls, previousMap, ctxCancelled, snapshotRes, axTreeRes,
                   axLookup, elements, basicRes, ret, tokens, firstDone,
                   annVars, browser>>

\* page.Call(ctx, ...) returns: the browser answered (an error, an
\* undecodable payload or a document with one link), or ctx is done.
ReturnSnapshotOrRelease ==
    /\ snapCall = "pending"
    /\ browser = "up" \/ ctxCancelled
    /\ \E r \in {SnapshotCallError, SnapshotUndecodable, SnapshotOf(<<nLink>>)} :
          /\ ctxCancelled => r = SnapshotCallError
          /\ snapshotRes' = r
    /\ snapCall' = "done"
    /\ UNCHANGED <<pc, calls, previousMap, ctxCancelled, elementMap, axCall,
                   axTreeRes, axLookup, elements, basicRes, ret, tokens, firstDone,
                   annVars, browser>>

ReturnAXTreeOrRelease ==
    /\ axCall = "pending"
    /\ browser = "up" \/ ctxCancelled
    /\ \E r \in {AXCallError, AXEmptyPayload} :
          /\ ctxCancelled => r = AXCallError
          /\ axTreeRes' = r
    /\ axCall' = "done"
    /\ UNCHANGED <<pc, calls, previousMap, ctxCancelled, elementMap, snapCall,
                   snapshotRes, axLookup, elements, basicRes, ret, tokens, firstDone,
                   annVars, browser>>

\* ExtractElementMap(ctx, page) returns: the browser answered, or ctx is done.
FallbackReturnOrRelease == (browser = "up" \/ ctxCancelled) /\ FallbackReturn

\* The steps of the calling goroutine and of the two goroutines it starts.
MainSteps ==
    \/ PageInfoAnswered
    \/ Wait
    \/ BuildAXIndex
    \/ SnapshotFailed
    \/ ParseFailed
    \/ ParseSnapshot
    \/ FilterElements
    \/ FallbackReturnOrRelease

SnapshotSteps == IssueSnapshot \/ ReturnSnapshotOrRelease
AXTreeSteps == IssueAXTree \/ ReturnAXTreeOrRelease

NextStuck ==
    \/ Call
    \/ Cancel
    \/ BrowserStops
    \/ PageInfoAbandoned
    \/ MainSteps
    \/ SnapshotSteps
    \/ AXTreeSteps

\* Every goroutine that can take a step eventually takes one.  The caller,
\* the browser and the page handle's context are under no obligation.
SpecStuck ==
    /\ Init
    /\ [][NextStuck]_vars
    /\ WF_vars(MainSteps)
    /\ WF_vars(SnapshotSteps)
    /\ WF_vars(AXTreeSteps)

\* ------------------------------------------- parse and filter on drawn inputs
\* The steps after wg.Wait() are a function of the two payloads.  The
\* specification below starts where both calls have returned and draws the
\* payloads from families that vary the boxes, the paint orders and the
\* interactivity signals.
MaxShapes == 2

\* Boxes one or two units high.  (0,0,9,1) covers exactly 90% of (0,0,10,1);
\* (0,0,9,1) and (1,0,9,1) are of equal area and overlap to 8/9, short of
\* 90%; (0,0,100,1) and (1,0,100,1) are of equal area and overlap to exactly
\* 99%; (0,0,100,2) covers exactly 99% of (1,0,100,1); (0,0,0,1) is empty.

BoxPool ==
    {Box(0, 0, 10, 1), Box(0, 0, 9, 1), Box(1, 0, 9, 1), Box(0, 0, 100, 1),
     Box(1, 0, 100, 1), Box(0, 0, 100, 2), Box(0, 0, 0, 1)}

\* A div with a box, a paint order, a click handler or none, and an opacity.
Shape(box, paintOrder, clickable, opacity) ==
    [box |-> box, paintOrder |-> paintOrder, clickable |-> clickable, opacity |-> opacity]

\* Visible shapes with and without a handler, and invisible ones with a
\* handler.
ShapePool ==
    {Shape(b, po, c, "1") : b \in BoxPool, po \in {1, 2}, c \in BOOLEAN}
        \cup {Shape(b, po, TRUE, "0") : b \in BoxPool, po \in {1, 2}}

ShapeNode(id, shape) ==
    Node(1, "DIV", id,
         IF shape.clickable THEN << <<"onclick", "go()">> >> ELSE <<>>,
         Some(Layout(Some(shape.box), shape.paintOrder,
                     <<"block", "visible", shape.opacity, "auto">>)))

\* Backend node ids are unique within a document: node i carries id i.
ShapeSnapshot(shapes) ==
    SnapshotOf([i \in 1..Len(shapes) |-> ShapeNode(i, shapes[i])])

ShapeInputs ==
    {[snapshot |-> ShapeSnapshot(shapes), axTree |-> AXEmptyPayload] :
        shapes \in SeqsUpTo(ShapePool, MaxShapes)}

\* One node that varies the signals the classifier reads: tag, role
\* attribute, onclick, tabindex and computed cursor.
SignalNode(tag, role, onclick, tabindex, cursor) ==
    Node(1, tag, 1,
         (IF role # "" THEN << <<"role", role>> >> ELSE <<>>)
            \o (IF onclick THEN << <<"onclick", "go()">> >> ELSE <<>>)
            \o (IF tabindex # "" THEN << <<"tabindex", tabindex>> >> ELSE <<>>),
         Some(Layout(Some(Box(0, 0, 10, 1)), 1, <<"block", "visible", "1", cursor>>)))

SignalNodes ==
    {SignalNode(tag, role, onclick, tabindex, cursor) :
        tag \in {"A", "DIV"}, role \in {"", "button", "img"}, onclick \in BOOLEAN,
        tabindex \in {"", "-1", "0"}, cursor \in {"auto", "pointer"}}

\* AX payloads for node 1: none, focusable or editable true, focusable false,
\* focusable given as the string "true", a button role with no property.
SignalAXTrees ==
    {AXEmptyPayload,
     AXOf(<<AXNode(1, NilVal, <<AXProp("focusable", BoolVal(TRUE))>>)>>),
     AXOf(<<AXNode(1, NilVal, <<AXProp("editable", BoolVal(TRUE))>>)>>),
     AXOf(<<AXNode(1, NilVal, <<AXProp("focusable", BoolVal(FALSE))>>)>>),
     AXOf(<<AXNode(1, NilVal, <<AXProp("focusable", StrVal("true"))>>)>>),
     AXOf(<<AXNode(1, StrVal("button"), <<>>)>>)}

SignalInputs ==
    {[snapshot |-> SnapshotOf(<<n>>), axTree |-> ax] :
        n \in SignalNodes, ax \in SignalAXTrees}

\* One button that varies the attributes isEnabled is derived from: a bare
\* disabled attribute (empty value), disabled with a value, aria-disabled.
DisabledNode(attributes) ==
    Node(1, "BUTTON", 1, attributes,
         Some(Layout(Some(Box(0, 0, 10, 1)), 1, StylesAuto)))

\* AX payloads for the button: none, and a node giving disabled as true.
DisabledInputs ==
    {[snapshot |-> SnapshotOf(<<DisabledNode(attrs)>>), axTree |-> ax] :
        attrs \in {<<>>,
                   << <<"disabled", "">> >>,
                   << <<"disabled", "disabled">> >>,
                   << <<"aria-disabled", "true">> >>,
                   << <<"aria-disabled", "false">> >>,
                   << <<"disabled", "">>, <<"aria-disabled", "false">> >>},
        ax \in {AXEmptyPayload,
                AXOf(<<AXNode(1, NilVal, <<AXProp("disabled", BoolVal(TRUE))>>)>>)}}

\* A button with a role-less svg icon inside it.
IconInButton ==
    SnapshotOf(<< Node(1, "BUTTON", 1, <<>>,
                       Some(Layout(Some(Box(0, 0, 100, 40)), 1, StylesAuto))),
                  Node(1, "SVG", 2, <<>>,
                       Some(Layout(Some(Box(8, 8, 24, 24)), 2, StylesAuto))) >>)

\* A link under a full-viewport overlay that has no signal of its own.
LinkUnderOverlay ==
    SnapshotOf(<< Node(1, "A", 1, << <<"href", "/x">> >>,
                       Some(Layout(Some(Box(100, 100, 80, 24)), 10, StylesAuto))),
                  Node(1, "DIV", 2, <<>>,
                       Some(Layout(Some(Box(0, 0, 1280, 720)), 1000, StylesAuto))) >>)

\* A click-handling div with two click-handling icons inside it, all visible.
TwoIconsInCard ==
    SnapshotOf(<< Node(1, "DIV", 1, << <<"onclick", "open()">> >>,
                       Some(Layout(Some(Box(0, 0, 100, 40)), 1, StylesAuto))),
                  Node(1, "SPAN", 2, << <<"onclick", "edit()">> >>,
                       Some(Layout(Some(Box(8, 8, 24, 24)), 2, StylesAuto))),
                  Node(1, "SPAN", 3, << <<"onclick", "drop()">> >>,
                       Some(Layout(Some(Box(60, 8, 24, 24)), 2, StylesAuto))) >>)

ScenarioInputs ==
    {[snapshot |-> IconInButton, axTree |-> AXEmptyPayload],
     [snapshot |-> LinkUnderOverlay, axTree |-> AXEmptyPayload],
     [snapshot |-> TwoIconsInCard, axTree |-> AXEmptyPayload]}

PipelineInputs ==
    ShapeInputs \cup SignalInputs \cup DisabledInputs \cup ScenarioInputs

\* Both calls have returned; page info is in and no prior map was passed.
InitPipeline ==
    /\ pc = "axindex"
    /\ calls = 1
    /\ previousMap = None
    /\ ctxCancelled = FALSE
    /\ elementMap = [NewEnhancedElementMap EXCEPT !.PageURL = "http://page",
                                                  !.PageTitle = "Page"]
    /\ snapCall = "done"
    /\ axCall = "done"
    /\ \E input \in PipelineInputs :
          /\ snapshotRes = input.snapshot
          /\ axTreeRes = input.axTree
    /\ axLookup = EmptyAXLookup
    /\ elements = <<>>
    /\ basicRes = BasicPending
    /\ ret = NothingReturned
    /\ tokens = None
    /\ firstDone = "snapshot"
    /\ browser = "up"
    /\ AnnotateIdle

NextPipeline ==
    \/ BuildAXIndex
    \/ ParseSnapshot
    \/ FilterElements

SpecPipeline == InitPipeline /\ [][NextPipeline]_vars

\* ---------------------------------------------------------------- Annotate
\* Image bytes are kept as what they encode: the media type, the size, the
\* shapes drawn on the picture, the encoder that wrote them and whether the
\* colours that decode from them are exactly those that were encoded.  The
\* canvas is kept as its size and the list of shapes drawn on it; a pixel of
\* the picture is changed when some shape paints it.
MaxElements == 2

CapturedBytes(media, w, h) ==
    [media |-> media, width |-> w, height |-> h, marks |-> <<>>, encoder |-> "capture",
     exact |-> TRUE]

\* Bytes that are no image at all.
JunkBytes ==
    [media |-> "", width |-> 0, height |-> 0, marks |-> <<>>, encoder |-> "",
     exact |-> TRUE]

ImagePool ==
    {CapturedBytes(media, 200, 200) : media \in {"image/png", "image/jpeg", "image/gif"}}
        \cup {CapturedBytes(media, 64, 48) : media \in {"image/png", "image/jpeg"}}
        \cup {JunkBytes}

\* image.Decode knows the formats whose packages are imported: png and jpeg.
RegisteredFormats == {"png", "jpeg"}

\* The format name the decoder registry gives for the bytes' signature.
SniffFormat(imgData) ==
    CASE imgData.media = "image/png" -> "png"
      [] imgData.media = "image/jpeg" -> "jpeg"
      [] imgData.media = "image/gif" -> "gif"
      [] OTHER -> ""

ImageDecodes(imgData) == SniffFormat(imgData) \in RegisteredFormats

\* image.Decode, image.NewRGBA(bounds) and draw.Draw: a canvas of the
\* picture's bounds holding the picture.
DecodeToCanvas(imgData) ==
    [format |-> SniffFormat(imgData), Width |-> imgData.width,
     Height |-> imgData.height, marks |-> imgData.marks]

\* The encoder always writing JPEG.
EncodeCanvasAsJPEG(canvas) ==
    [media |-> "image/jpeg", width |-> canvas.Width, height |-> canvas.Height,
     marks |-> canvas.marks, encoder |-> "jpeg", exact |-> TRUE]

\* switch format: png.Encode for "png", jpeg.Encode otherwise.
EncodeCanvas(canvas) ==
    IF canvas.format = "png"
    THEN [media |-> "image/png", width |-> canvas.Width, height |-> canvas.Height,
          marks |-> canvas.marks, encoder |-> "png", exact |-> TRUE]
    ELSE [media |-> "image/jpeg", width |-> canvas.Width, height |-> canvas.Height,
          marks |-> canvas.marks, encoder |-> "jpeg", exact |-> TRUE]

\* jpeg.Encode at quality 85 quantises the picture: whether the colours that
\* decode from its bytes are exactly the canvas's depends on the picture.
\* png.Encode loses nothing.
Quantised(bytes, exact) ==
    IF bytes.encoder = "jpeg" THEN [bytes EXCEPT !.exact = exact] ELSE bytes

DefaultAnnotationConfig ==
    [BorderWidth |-> 2, FontSize |-> 12, ShowLabels |-> TRUE,
     ShowLabelsOnlyForUnlabeled |-> FALSE]

ConfigPool ==
    {[DefaultAnnotationConfig EXCEPT !.BorderWidth = w, !.ShowLabels = l,
                                     !.ShowLabelsOnlyForUnlabeled = u] :
        w \in {1, 2}, l \in BOOLEAN, u \in BOOLEAN}

\* What Annotate reads of an element through ElementInfo.
ElementInfo(tag, text, visible, box) ==
    [Index |-> 0, TagName |-> tag, Role |-> "", Text |-> text,
     IsVisible |-> visible, BoundingBox |-> box]

\* A link with a text, a button near the top edge, an invisible div, an
\* input with an empty box and a textarea whose right edge is at x = 64.
ElementInfoPool ==
    {ElementInfo("a", "Go", TRUE, Box(50, 50, 80, 40)),
     ElementInfo("textarea", "", TRUE, Box(34, 20, 30, 10)),
     ElementInfo("button", "", TRUE, Box(10, 5, 30, 10)),
     ElementInfo("div", "", FALSE, Box(20, 20, 20, 20)),
     ElementInfo("input", "", TRUE, ZeroBox)}

\* The element maps handed to Annotate: nil, or a list indexed from 0.
AnnotateMaps ==
    {None} \cup
    {Some([i \in 1..Len(els) |-> [els[i] EXCEPT !.Index = i - 1]]) :
        els \in SeqsUpTo(ElementInfoPool, MaxElements)}

clamp(v, lo, hi) == IF v < lo THEN lo ELSE IF v > hi THEN hi ELSE v

getElementColorFromInfo(el) ==
    CASE el.TagName = "a" -> "LinkColor"
      [] el.TagName = "button" -> "ButtonColor"
      [] el.TagName \in {"input", "textarea", "select"} -> "InputColor"
      [] OTHER ->
            CASE el.Role \in {"button", "menuitem", "tab"} -> "ButtonColor"
              [] el.Role = "link" -> "LinkColor"
              [] el.Role \in {"textbox", "combobox", "searchbox"} -> "InputColor"
              [] OTHER -> "DefaultColor"

\* drawBoundingBoxFromInfo: the border of the box, its corners clamped to the
\* canvas.
BoxMark(canvas, el, cfg) ==
    [kind |-> "box", index |-> el.Index, color |-> getElementColorFromInfo(el),
     borderWidth |-> cfg.BorderWidth,
     x0 |-> clamp(el.BoundingBox.X, 0, canvas.Width - 1),
     y0 |-> clamp(el.BoundingBox.Y, 0, canvas.Height - 1),
     x1 |-> clamp(el.BoundingBox.X + el.BoundingBox.Width, 0, canvas.Width - 1),
     y1 |-> clamp(el.BoundingBox.Y + el.BoundingBox.Height, 0, canvas.Height - 1)]

\* drawIndexLabelFromInfo for an index of one digit: the label rectangle
\* above the box, or inside it when there is no room above.
LabelMark(canvas, el, cfg) ==
    LET labelWidth == (cfg.FontSize * 7) \div 12 + 4
        labelHeight == cfg.FontSize + 4
        centred == el.BoundingBox.X + el.BoundingBox.Width \div 2 - labelWidth \div 2
        above == el.BoundingBox.Y - labelHeight - 2
        labelY == IF above < 0 THEN el.BoundingBox.Y + 2 ELSE above
        left == IF centred < 0 THEN 0 ELSE centred
        labelX == IF left + labelWidth > canvas.Width
                  THEN canvas.Width - labelWidth ELSE left
    IN  [kind |-> "label", index |-> el.Index, color |-> "LabelBgColor",
         borderWidth |-> 0,
         x0 |-> labelX, y0 |-> labelY,
         x1 |-> Min2(labelX + labelWidth, canvas.Width) - 1,
         y1 |-> Min2(labelY + labelHeight, canvas.Height) - 1]

\* The filled strip that draws the border as one rectangle.
PaintsFilled(mark, x, y) ==
    mark.x0 <= x /\ x <= mark.x1 /\ mark.y0 <= y /\ y <= mark.y1

\* The pixels a shape sets.  A border is the four loops of
\* drawBoundingBoxFromInfo: rows from y0 down and from y1 up, columns from x0
\* right and from x1 left, borderWidth of each and none past the opposite
\* edge.  A label is its background rectangle within the canvas; the cells
\* of the digit lie inside it.
Paints(mark, x, y) ==
    /\ mark.x0 <= x /\ x <= mark.x1
    /\ mark.y0 <= y /\ y <= mark.y1
    /\ IF mark.kind = "box"
       THEN \/ y < mark.y0 + mark.borderWidth
            \/ y > mark.y1 - mark.borderWidth
            \/ x < mark.x0 + mark.borderWidth
            \/ x > mark.x1 - mark.borderWidth
       ELSE x >= 0 /\ y >= 0

\* One turn of Annotate's loop.
DrawElement(canvas, el, cfg) ==
    IF ~el.IsVisible \/ IsEmptyBox(el.BoundingBox) THEN canvas
    ELSE LET boxed == [canvas EXCEPT !.marks = Append(@, BoxMark(canvas, el, cfg))]
         IN  IF cfg.ShowLabels /\ ~(cfg.ShowLabelsOnlyForUnlabeled /\ el.Text # "")
             THEN [boxed EXCEPT !.marks = Append(@, LabelMark(canvas, el, cfg))]
             ELSE boxed

RECURSIVE DrawElements(_, _, _)
DrawElements(canvas, els, cfg) ==
    IF els = <<>> THEN canvas
    ELSE DrawElements(DrawElement(canvas, Head(els), cfg), Tail(els), cfg)

\* Annotate is called.
AnnotateCall ==
    /\ annPc = "idle"
    /\ \E imgData \in ImagePool, m \in AnnotateMaps, cfg \in ConfigPool :
          annArgs' = Some([imgData |-> imgData, elementMap |-> m, cfg |-> cfg])
    /\ annPc' = "called"
    /\ UNCHANGED <<annImg, annRet, extractVars>>

\* The test with the length left out.
NothingToAnnotateNilOnly == ~IsSome(Get(annArgs).elementMap)

\* elementMap == nil || elementMap.Len() == 0
NothingToAnnotate ==
    IF IsSome(Get(annArgs).elementMap)
    THEN Len(Get(Get(annArgs).elementMap)) = 0
    ELSE TRUE

\* No element: the input bytes are handed back.
AnnotateNothing ==
    /\ annPc = "called"
    /\ NothingToAnnotate
    /\ annRet' = ReturnedBytes(Get(annArgs).imgData)
    /\ annPc' = "done"
    /\ UNCHANGED <<annArgs, annImg, extractVars>>

\* image.Decode fails.
AnnotateDecodeFails ==
    /\ annPc = "called"
    /\ ~NothingToAnnotate
    /\ ~ImageDecodes(Get(annArgs).imgData)
    /\ annRet' = FailedWith("failed to decode image for annotation")
    /\ annPc' = "done"
    /\ UNCHANGED <<annArgs, annImg, extractVars>>

\* The image decodes and is copied to an RGBA canvas.
AnnotateDecode ==
    /\ annPc = "called"
    /\ ~NothingToAnnotate
    /\ ImageDecodes(Get(annArgs).imgData)
    /\ annImg' = Some(DecodeToCanvas(Get(annArgs).imgData))
    /\ annPc' = "draw"
    /\ UNCHANGED <<annArgs, annRet, extractVars>>

\* The loop over the elements draws the boxes and labels.
AnnotateDraw ==
    /\ annPc = "draw"
    /\ annImg' = Some(DrawElements(Get(annImg), Get(Get(annArgs).elementMap),
                                   Get(annArgs).cfg))
    /\ annPc' = "encode"
    /\ UNCHANGED <<annArgs, annRet, extractVars>>

\* The canvas is encoded; the encoder may fail.
AnnotateEncode ==
    /\ annPc = "encode"
    /\ \E encoded \in BOOLEAN, exact \in BOOLEAN :
          annRet' = IF encoded
                    THEN ReturnedBytes(Quantised(EncodeCanvas(Get(annImg)), exact))
                    ELSE FailedWith("failed to encode annotated image")
    /\ annPc' = "done"
    /\ UNCHANGED <<annArgs, annImg, extractVars>>

NextAnnotate ==
    \/ AnnotateCall
    \/ AnnotateNothing
    \/ AnnotateDecodeFails
    \/ AnnotateDecode
    \/ AnnotateDraw
    \/ AnnotateEncode

SpecAnnotate == Init /\ [][NextAnnotate]_vars

\* =================================================================== claims
\* The call has returned a map; M is that map.
MapReturned == pc = "done" /\ IsSome(ret.map)
M == Get(ret.map)
\* The returned map was built from the CDP snapshot / by the scripted fallback.
FromSnapshot == MapReturned /\ basicRes.kind = "none"
FromFallback == MapReturned /\ basicRes.kind = "ok"
Survivors == 1..Len(M.Elements)

\* C1: in every returned map, from the snapshot or from the fallback, the
\* element at position i of the ordered list has index i (counted from 0), so
\* the indices are 0..n-1 with no gap and no duplicate.
C1_DenseIndices ==
    MapReturned => \A i \in Survivors : M.Elements[i].Index = i - 1

\* A map from the snapshot whose only survivor was the second candidate in
\* paint order: the first one was dropped as contained.
C1_Witness ==
    /\ FromSnapshot
    /\ Len(M.Elements) = 1
    /\ M.FilteredByContain = 1
    /\ elements[2].BackendNodeID = M.Elements[1].BackendNodeID
    /\ M.Elements[1].Index = 0

\* C2: in every returned map, every element e of the ordered list with a
\* positive backend node id is the element BackendNodeMap holds under that
\* id, also when several candidates of one snapshot carry the same id.
C2_BackendNodeMapHoldsElement ==
    MapReturned =>
        \A i \in Survivors :
            M.Elements[i].BackendNodeID > 0 =>
                /\ M.Elements[i].BackendNodeID \in DOMAIN M.BackendNodeMap
                /\ M.BackendNodeMap[M.Elements[i].BackendNodeID] = i

C4_StatisticsAddUp ==
    MapReturned =>
        M.TotalElements =
            M.FilteredByHidden + M.FilteredByPaint + M.FilteredByContain + Len(M.Elements)

\* The ids of the prior map that was passed; empty when none was.
PriorIDs == PreviousIDs(previousMap)

\* C5 as claimed: on every path that returns a map, an element is new if and
\* only if a prior map was passed and the element's backend node id is no key
\* of the prior map's BackendNodeMap.
C5_IsNewIffAbsentFromPrior ==
    MapReturned =>
        \A i \in Survivors :
            M.Elements[i].IsNew <=>
                (IsSome(previousMap) /\ M.Elements[i].BackendNodeID \notin PriorIDs)

\* C5 as amended: the equivalence holds for a map built from the snapshot; a
\* map built by the scripted fallback marks no element new.
C5_IsNewOnSnapshotPath ==
    /\ FromSnapshot =>
          \A i \in Survivors :
              M.Elements[i].IsNew <=>
                  (IsSome(previousMap) /\ M.Elements[i].BackendNodeID \notin PriorIDs)
    /\ FromFallback => \A i \in Survivors : ~M.Elements[i].IsNew

\* A second extraction from the snapshot, with the first map passed, that
\* returns one element the prior map knows and one it does not.
C5_Witness ==
    /\ FromSnapshot
    /\ IsSome(previousMap)
    /\ \E i, j \in Survivors :
          /\ M.Elements[i].IsNew
          /\ M.Elements[i].BackendNodeID \notin PriorIDs
          /\ ~M.Elements[j].IsNew
          /\ M.Elements[j].BackendNodeID \in PriorIDs

\* C6: the line of an emitted element starts with '*' exactly when the
\* element has isNew set.
C6_StarMarksNew ==
    (pc = "done" /\ IsSome(tokens)) =>
        \A k \in 1..Len(Get(tokens).lines) :
            (Get(tokens).lines[k].prefix = "*") <=>
                M.Elements[Get(tokens).lines[k].pos].IsNew

\* C7: when the context was cancelled while the extraction was in progress,
\* the call returns a failure and no map.
C7_CancelledReturnsFailure ==
    (pc = "done" /\ ctxCancelled) => (~IsSome(ret.map) /\ IsSome(ret.err))

\* C8: the call returns a map or an error, never both and never neither; a
\* returned map is complete; nothing is returned before the call is done;
\* and when the snapshot call failed, did not decode or held no document,
\* the fallback ran, its failure being returned with a nil map.
C8_MapOrError ==
    /\ pc # "done" => ret = NothingReturned
    /\ pc = "done" =>
          /\ IsSome(ret.map) # IsSome(ret.err)
          /\ ~SnapshotDecodes(snapshotRes) => basicRes.kind \in {"ok", "err"}
          /\ basicRes.kind = "err" => (~IsSome(ret.map) /\ IsSome(ret.err))
          /\ FromFallback => Len(M.Elements) = Len(basicRes.Elements)
          /\ FromSnapshot => M.TotalElements = Len(elements)

\* The snapshot held no document and the fallback failed: an error, no map.
C8_Witness ==
    /\ pc = "done"
    /\ snapshotRes = SnapshotNoDocuments
    /\ basicRes.kind = "err"
    /\ ~IsSome(ret.map)
    /\ IsSome(ret.err)

\* The map the call builds from its snapshot when the AX index is empty.
MapWithEmptyAXIndex ==
    FilterAndIndex(parseSnapshotResponse(snapshotRes, EmptyAXLookup),
                   [NewEnhancedElementMap EXCEPT
                        !.PageURL = elementMap.PageURL,
                        !.PageTitle = elementMap.PageTitle,
                        !.PreviousNodeIDs = PriorIDs],
                   IsSome(previousMap))

\* C9: when the AX call failed (an error, an empty or an undecodable payload)
\* and the snapshot decoded, the call does not fail, the fallback is not run
\* and the returned map is the one the snapshot gives with an empty AX index.
C9_AXFailureAbsorbed ==
    (pc = "done" /\ SnapshotDecodes(snapshotRes)
                 /\ axTreeRes.kind \in {"err", "empty", "bad"}) =>
        /\ basicRes.kind = "none"
        /\ ret = Returned(MapWithEmptyAXIndex)

\* The AX payload did not decode, though its leading bytes describe node 105
\* as focusable; the snapshot holds node 105, which is dropped as hidden.
C9_Witness ==
    /\ FromSnapshot
    /\ axTreeRes = AXUndecodable
    /\ ~ctxCancelled
    /\ \E k \in 1..Len(elements) :
          elements[k].BackendNodeID = 105 /\ ~elements[k].IsInteractive
    /\ M.FilteredByHidden >= 1

\* C10: AX indexing, parsing, filtering, the fallback and the return happen
\* only after both requests were issued and have returned, whatever their
\* outcome; before that no downstream result exists.
C10_BothCallsCompleteFirst ==
    /\ pc \in {"axindex", "dispatch", "filter", "fallback", "done"} =>
          /\ snapCall = "done" /\ snapshotRes.kind # "none"
          /\ axCall = "done" /\ axTreeRes.kind # "none"
    /\ pc \in {"info", "wait"} =>
          /\ axLookup = EmptyAXLookup
          /\ elements = <<>>
          /\ ret = NothingReturned

\* The snapshot call failed, the context is not cancelled, and the AX call
\* still ran to a successful return before the dispatch.
C10_Witness ==
    /\ pc = "dispatch"
    /\ snapshotRes.kind = "err"
    /\ axTreeRes.kind = "ok"
    /\ ~ctxCancelled

\* The map as it stands when the two goroutines are started: page info and
\* the prior ids are in, nothing else.
MapAfterInfo ==
    [NewEnhancedElementMap EXCEPT !.PageURL = elementMap.PageURL,
                                  !.PageTitle = elementMap.PageTitle,
                                  !.PreviousNodeIDs = PreviousIDs(previousMap)]

\* What the two call results, the fallback's result and the prior map
\* determine, with no reference to the order of the goroutines.
ResultOf(snapRes, axRes, basRes, m, hasPrevious) ==
    IF snapRes.kind = "err" \/ ~SnapshotDecodes(snapRes)
    THEN extractEnhancedElementMapJS(basRes, m)
    ELSE Returned(FilterAndIndex(
             parseSnapshotResponse(snapRes, BuildAXLookup(axRes)), m, hasPrevious))

\* C11: for fixed results of the snapshot call and of the AX call (and of the
\* fallback, where it runs), the map or error the extraction returns is the
\* same whichever goroutine issued its call or got its result first: it is a
\* function of the results alone.
C11_ResultIndependentOfOrder ==
    pc = "done" =>
        /\ snapshotRes.kind # "none"
        /\ axTreeRes.kind # "none"
        /\ ret = ResultOf(snapshotRes, axTreeRes, basicRes, MapAfterInfo,
                          IsSome(previousMap))

\* The AX call returned before the snapshot call, and its result decided
\* that node 105 is in the returned map.
C11_Witness ==
    /\ FromSnapshot
    /\ firstDone = "ax"
    /\ axTreeRes = AXOf(axFocusable)
    /\ \E i \in Survivors : M.Elements[i].BackendNodeID = 105

\* The same results with the snapshot call returning first.
C11_WitnessSnapshotFirst ==
    /\ FromSnapshot
    /\ firstDone = "snapshot"
    /\ axTreeRes = AXOf(axFocusable)
    /\ \E i \in Survivors : M.Elements[i].BackendNodeID = 105

\* C12: in a map built from the snapshot, the survivors are in non-increasing
\* paint order: an element never follows one of lower paint order.
C12_SurvivorsByPaintOrder ==
    FromSnapshot =>
        \A i, j \in Survivors :
            i < j => M.Elements[i].PaintOrder >= M.Elements[j].PaintOrder

\* Two survivors whose nodes came in increasing paint order in the snapshot
\* and stand in decreasing paint order in the map.
C12_Witness ==
    /\ FromSnapshot
    /\ snapshotRes = SnapshotOf(<<nDup, nLink>>)
    /\ Len(M.Elements) = 2
    /\ M.Elements[1].PaintOrder = 10
    /\ M.Elements[2].PaintOrder = 7

\* The candidates have been parsed, sorted and marked.
Parsed == pc \in {"filter", "done"} /\ SnapshotDecodes(snapshotRes)
Candidates == 1..Len(elements)
SnapshotNodes == snapshotRes.documents[1]

\* The six signals of the classifier, and a payload with one of them taken
\* from node k: an interactive tag becomes a div, the role, onclick or
\* tabindex attribute is dropped, the cursor becomes "auto", the AX node of
\* the element loses its focusable and editable properties.
Signals == {"tag", "role", "onclick", "tabindex", "cursor", "ax"}

DropAttr(attributes, attrName) ==
    LET Keep(pair) == pair[1] # attrName
    IN  SelectSeq(attributes, Keep)

NodeWithout(node, signal) ==
    CASE signal = "tag" ->
            IF ToLower(node.nodeName) \in interactiveTags
            THEN [node EXCEPT !.nodeName = "DIV"] ELSE node
      [] signal \in {"role", "onclick", "tabindex"} ->
            [node EXCEPT !.attributes = DropAttr(@, signal)]
      [] signal = "cursor" ->
            IF IsSome(node.layout) /\ Len(Get(node.layout).styles) >= 4
            THEN [node EXCEPT !.layout =
                     Some([Get(@) EXCEPT !.styles = [@ EXCEPT ![4] = "auto"]])]
            ELSE node
      [] OTHER -> node

AXNodeWithout(axNode) ==
    LET Keep(prop) == prop.Name \notin {"focusable", "editable"}
    IN  [axNode EXCEPT !.Properties = SelectSeq(@, Keep)]

SnapshotWithout(snapRes, k, signal) ==
    [snapRes EXCEPT !.documents[1][k] = NodeWithout(@, signal)]

AXTreeWithout(axRes, id, signal) ==
    IF signal # "ax" THEN axRes
    ELSE [axRes EXCEPT !.nodes =
             [n \in 1..Len(@) |->
                 IF @[n].BackendDOMNodeID = id THEN AXNodeWithout(@[n]) ELSE @[n]]]

\* The candidates and the map the extraction yields with that signal gone.
ElementsWithout(k, signal) ==
    parseSnapshotResponse(
        SnapshotWithout(snapshotRes, k, signal),
        BuildAXLookup(AXTreeWithout(axTreeRes, SnapshotNodes[k].backendNodeId, signal)))

MapWithout(k, signal) ==
    FilterAndIndex(ElementsWithout(k, signal), MapAfterInfo, IsSome(previousMap))

InteractiveCount(els) == Cardinality({i \in 1..Len(els) : els[i].IsInteractive})

\* Node k carries the signal: taking it away changes a payload.
Carries(k, signal) ==
    \/ SnapshotWithout(snapshotRes, k, signal) # snapshotRes
    \/ AXTreeWithout(axTreeRes, SnapshotNodes[k].backendNodeId, signal) # axTreeRes

\* C13 as stated: taking one interactivity signal from one candidate of the
\* snapshot never increases the number of elements of the returned map.
C13_MapCountMonotone ==
    FromSnapshot =>
        \A k \in 1..Len(SnapshotNodes), signal \in Signals :
            Carries(k, signal) =>
                Len(MapWithout(k, signal).Elements) <= Len(M.Elements)

\* C13 amended: taking one interactivity signal from one candidate never
\* increases the number of candidates the classifier marks interactive.
C13_ClassifierMonotone ==
    Parsed =>
        \A k \in 1..Len(SnapshotNodes), signal \in Signals :
            Carries(k, signal) =>
                InteractiveCount(ElementsWithout(k, signal)) <= InteractiveCount(elements)

\* A candidate whose only signal is its click handler: with the handler
\* gone the interactive count drops from one to zero.
C13_Witness ==
    /\ Parsed
    /\ Len(SnapshotNodes) = 1
    /\ InteractiveCount(elements) = 1
    /\ InteractiveCount(ElementsWithout(1, "onclick")) = 0

\* The card with two icons: the map holds the card alone, and with the
\* card's handler gone it holds the two icons.
C13_CardLosesHandler ==
    /\ FromSnapshot
    /\ snapshotRes = TwoIconsInCard
    /\ Len(M.Elements) = 1
    /\ Len(MapWithout(1, "onclick").Elements) = 2

\* The node of the snapshot a candidate was parsed from (ids are unique in
\* the drawn snapshots), and whether the AX payload, when it is usable, holds
\* a node for the id that gives focusable or editable as the bool true.
NodeOfCandidate(c) ==
    SnapshotNodes[CHOOSE k \in 1..Len(SnapshotNodes) :
                      SnapshotNodes[k].backendNodeId = elements[c].BackendNodeID]

AXAssertsFor(id) ==
    /\ axTreeRes.kind = "ok"
    /\ \E n \in 1..Len(axTreeRes.nodes) :
          /\ axTreeRes.nodes[n].BackendDOMNodeID = id
          /\ \E k \in 1..Len(axTreeRes.nodes[n].Properties) :
                axTreeRes.nodes[n].Properties[k] \in
                    {AXProp("focusable", BoolVal(TRUE)), AXProp("editable", BoolVal(TRUE))}

NodeCursor(node) ==
    IF IsSome(node.layout) THEN StyleAt(Get(node.layout).styles, 4) ELSE ""

SomeTierHolds(node) ==
    \/ ToLower(node.nodeName) \in interactiveTags
    \/ getAttr(node.attributes, "role") \in interactiveRoles
    \/ getAttr(node.attributes, "onclick") # ""
    \/ getAttr(node.attributes, "tabindex") \notin {"", "-1"}
    \/ AXAssertsFor(node.backendNodeId)
    \/ NodeCursor(node) = "pointer"

InMap(id) == \E i \in Survivors : M.Elements[i].BackendNodeID = id

\* C14: a candidate is classified interactive exactly when one of the five
\* tiers holds for its node (interactive tag; interactive role attribute;
\* onclick, or a tabindex other than "-1"; an AX node giving focusable or
\* editable as true; cursor "pointer"), and a visible div with cursor
\* "pointer" that is neither occluded nor contained is in the returned map.
C14_InteractiveIffSomeTier ==
    /\ Parsed =>
          \A c \in Candidates :
              elements[c].IsInteractive <=> SomeTierHolds(NodeOfCandidate(c))
    /\ FromSnapshot =>
          \A c \in Candidates :
              (/\ elements[c].TagName = "div"
               /\ elements[c].IsVisible
               /\ elements[c].ComputedCursor = "pointer"
               /\ ~elements[c].IsOccluded
               /\ ~elements[c].IsContained)
                  => InMap(elements[c].BackendNodeID)

\* A div whose only signal is the pointer cursor is the one element of the
\* returned map.
C14_Witness ==
    /\ FromSnapshot
    /\ snapshotRes = SnapshotOf(<<SignalNode("DIV", "", FALSE, "", "pointer")>>)
    /\ axTreeRes = AXEmptyPayload
    /\ Len(M.Elements) = 1
    /\ M.Elements[1].TagName = "div"
    /\ M.Elements[1].ComputedCursor = "pointer"

\* C15: every candidate the containment filter marks contained is absent
\* from the returned map and counted in filteredByContain; the button with a
\* role-less svg inside yields the button alone and filteredByContain = 1.
C15_ContainedCountedByContain ==
    FromSnapshot =>
        /\ \A c \in Candidates :
              elements[c].IsContained => ~InMap(elements[c].BackendNodeID)
        /\ M.FilteredByContain =
              Cardinality({c \in Candidates : elements[c].IsContained})
        /\ snapshotRes = IconInButton =>
              /\ Len(M.Elements) = 1
              /\ M.Elements[1].TagName = "button"
              /\ M.FilteredByContain = 1

\* What the button with the svg yields: the button alone, the svg marked
\* contained and counted as hidden.
C15_IconCountedAsHidden ==
    /\ FromSnapshot
    /\ snapshotRes = IconInButton
    /\ Len(M.Elements) = 1
    /\ M.Elements[1].TagName = "button"
    /\ \E c \in Candidates : elements[c].TagName = "svg" /\ elements[c].IsContained
    /\ M.FilteredByContain = 0
    /\ M.FilteredByHidden = 1

\* Candidate h covers at least the given percentage of candidate c's area.
Covers(h, c, percent) ==
    100 * IntersectionArea(elements[c].BoundingBox, elements[h].BoundingBox)
        >= percent * Area(elements[c].BoundingBox)

\* The visible interactive candidates with non-empty bounds that a candidate
\* of strictly higher paint order and non-empty bounds covers to 90%.
CoveredFromAbove ==
    {c \in Candidates :
        /\ elements[c].IsVisible
        /\ elements[c].IsInteractive
        /\ ~IsEmptyBox(elements[c].BoundingBox)
        /\ \E h \in Candidates :
              /\ elements[h].PaintOrder > elements[c].PaintOrder
              /\ ~IsEmptyBox(elements[h].BoundingBox)
              /\ Covers(h, c, 90)}

\* C16: a visible interactive candidate with non-empty bounds that a
\* candidate of strictly higher paint order and non-empty bounds covers to at
\* least 90% is absent from the returned map, and each such candidate is
\* counted in filteredByPaint.
C16_CoveredIsFilteredByPaint ==
    FromSnapshot =>
        /\ \A c \in CoveredFromAbove : ~InMap(elements[c].BackendNodeID)
        /\ M.FilteredByPaint >= Cardinality(CoveredFromAbove)

\* The link under the full-viewport overlay: no survivor, and the link is
\* counted in filteredByPaint.
C16_Witness ==
    /\ FromSnapshot
    /\ snapshotRes = LinkUnderOverlay
    /\ CoveredFromAbove # {}
    /\ Len(M.Elements) = 0
    /\ M.FilteredByPaint = 1

\* A candidate covered to exactly 90% is filtered as well.
C16_ExactlyNinetyPercent ==
    /\ FromSnapshot
    /\ \E c \in CoveredFromAbove :
          /\ elements[c].BoundingBox = Box(0, 0, 10, 1)
          /\ \A h \in Candidates \ {c} : elements[h].BoundingBox = Box(0, 0, 9, 1)
    /\ Len(elements) = 2

\* C17: within one occlusion pass, if candidate a is the element on which
\* the scan for b stopped (the reason b is marked occluded), then b is not
\* the element on which the scan for a stopped; a candidate is marked
\* occluded exactly when its scan stopped on some element.
C17_OccludesAsymmetric ==
    Parsed =>
        /\ \A b \in Candidates : elements[b].IsOccluded <=> Occluder(elements, b) # 0
        /\ \A a, b \in Candidates :
              Occluder(elements, b) = a => Occluder(elements, a) # b

\* Two candidates with identical non-empty boxes and equal paint orders: the
\* second of the list is occluded by the first, and the first is not
\* occluded.
C17_Witness ==
    /\ Parsed
    /\ Len(elements) = 2
    /\ elements[1].BoundingBox = elements[2].BoundingBox
    /\ elements[1].PaintOrder = elements[2].PaintOrder
    /\ Occluder(elements, 2) = 1
    /\ elements[2].IsOccluded
    /\ ~elements[1].IsOccluded

\* C18: a candidate e is marked contained only if an interactive candidate p
\* other than e covers at least 99% of e's area and area(e) < area(p); a
\* candidate whose area equals that of every other candidate is never marked
\* contained.
C18_ContainedOnlyInLargerParent ==
    Parsed =>
        \A e \in Candidates :
            /\ elements[e].IsContained =>
                  \E p \in Candidates \ {e} :
                      /\ elements[p].IsInteractive
                      /\ Covers(p, e, 99)
                      /\ Area(elements[e].BoundingBox) < Area(elements[p].BoundingBox)
            /\ (\A p \in Candidates :
                    Area(elements[p].BoundingBox) = Area(elements[e].BoundingBox))
                  => ~elements[e].IsContained

\* Two interactive candidates of equal area that overlap to 99%: neither is
\* marked contained.
C18_Witness ==
    /\ Parsed
    /\ Len(elements) = 2
    /\ {elements[1].BoundingBox, elements[2].BoundingBox}
          = {Box(0, 0, 100, 1), Box(1, 0, 100, 1)}
    /\ elements[1].IsInteractive
    /\ elements[2].IsInteractive
    /\ Covers(1, 2, 99)
    /\ Covers(2, 1, 99)
    /\ ~elements[1].IsContained
    /\ ~elements[2].IsContained

\* A candidate covered to exactly 99% by a larger interactive one is marked
\* contained.
C18_ExactlyNinetyNinePercent ==
    /\ Parsed
    /\ \E e, p \in Candidates :
          /\ elements[e].BoundingBox = Box(1, 0, 100, 1)
          /\ elements[p].BoundingBox = Box(0, 0, 100, 2)
          /\ elements[p].IsInteractive
          /\ elements[e].IsContained

\* Annotate has returned; its arguments and what it returned.
Annotated == annPc = "done"
ImgData == Get(annArgs).imgData
GivenMap == Get(annArgs).elementMap
GivenNoElement == IF IsSome(GivenMap) THEN Get(GivenMap) = <<>> ELSE TRUE

\* C19: called with a nil element map or a map of length 0, Annotate returns
\* exactly the input bytes and no error, and no image was decoded, whatever
\* the bytes are.
C19_EmptyMapReturnsInput ==
    (Annotated /\ GivenNoElement) =>
        /\ annRet = ReturnedBytes(ImgData)
        /\ annImg = None

\* An empty (non-nil) map with bytes that are no image: the bytes come back.
C19_Witness ==
    /\ Annotated
    /\ GivenMap = Some(<<>>)
    /\ ImgData = JunkBytes
    /\ annRet = ReturnedBytes(JunkBytes)

\* The same with a nil map.
C19_WitnessNil ==
    /\ Annotated
    /\ GivenMap = None
    /\ ImgData = JunkBytes
    /\ annRet = ReturnedBytes(JunkBytes)

\* C20: the bytes a successful Annotate returns encode an image of the
\* input's width and height and of the input's media type; Annotate returns
\* either bytes or an error, never both, and when the image does not decode
\* or the encoder fails it returns an error and no bytes.
C20_SizeAndMediaTypeKept ==
    Annotated =>
        /\ IsSome(annRet.bytes) =>
              /\ Get(annRet.bytes).width = ImgData.width
              /\ Get(annRet.bytes).height = ImgData.height
              /\ Get(annRet.bytes).media = ImgData.media
        /\ IsSome(annRet.bytes) <=> ~IsSome(annRet.err)
        /\ (~GivenNoElement /\ SniffFormat(ImgData) \notin {"png", "jpeg"})
              => annRet = FailedWith("failed to decode image for annotation")
        /\ (~GivenNoElement /\ IsSome(annRet.bytes)) =>
              /\ Get(annRet.bytes).encoder # "capture"
              /\ Get(annRet.bytes).marks = Get(annImg).marks

\* A PNG of 64x48 annotated with one visible element comes back as a PNG of
\* 64x48 with the element's box drawn.
C20_Witness ==
    /\ Annotated
    /\ ImgData = CapturedBytes("image/png", 64, 48)
    /\ IsSome(annRet.bytes)
    /\ Get(annRet.bytes).media = "image/png"
    /\ Get(annRet.bytes).width = 64
    /\ Get(annRet.bytes).height = 48
    /\ Len(Get(annRet.bytes).marks) > 0

\* The encoder fails: an error and no bytes.
C20_EncodeFailure ==
    /\ Annotated
    /\ annRet = FailedWith("failed to encode annotated image")
    /\ IsSome(annImg)

\* C21: a candidate e is marked occluded only if some candidate of strictly
\* higher paint order than e and non-empty bounds covers at least 90% of e's
\* area; the element on which the scan for e stopped never has e's paint
\* order.
C21_OccludedOnlyByHigherPaint ==
    Parsed =>
        \A e \in Candidates :
            /\ elements[e].IsOccluded =>
                  \E h \in Candidates :
                      /\ elements[h].PaintOrder > elements[e].PaintOrder
                      /\ ~IsEmptyBox(elements[h].BoundingBox)
                      /\ Covers(h, e, 90)
            /\ Occluder(elements, e) # 0 =>
                  elements[Occluder(elements, e)].PaintOrder # elements[e].PaintOrder

\* The candidates with no role attribute and no tier of their own whose
\* accessibility node supplied a role of the interactive-ARIA set.
RoleFromAXOnly ==
    {c \in Candidates :
        /\ getAttr(NodeOfCandidate(c).attributes, "role") = ""
        /\ ~SomeTierHolds(NodeOfCandidate(c))
        /\ elements[c].Role \in interactiveRoles}

\* C22: classification sees the role the AX merge filled in: a candidate
\* with no role attribute and no other interactivity signal whose
\* accessibility node supplies a role of the interactive-ARIA set is
\* classified interactive, and is in the returned map when it is visible, not
\* occluded and not contained.
C22_ClassifiedAfterMerge ==
    /\ Parsed => \A c \in RoleFromAXOnly : elements[c].IsInteractive
    /\ FromSnapshot =>
          \A c \in RoleFromAXOnly :
              (elements[c].IsVisible /\ ~elements[c].IsOccluded /\ ~elements[c].IsContained)
                  => InMap(elements[c].BackendNodeID)

\* The node carries an attribute of that name, whatever its value.
HasAttr(attributes, attrName) ==
    \E k \in 1..Len(attributes) : attributes[k][1] = attrName

\* C23: a candidate whose node carries a disabled attribute, whatever its
\* value (the empty value of a bare attribute included), or aria-disabled =
\* "true" has isEnabled false; a candidate whose node carries neither, and for
\* which the AX index holds no node, has isEnabled true.
C23_DisabledAttributeClearsEnabled ==
    Parsed =>
        \A c \in Candidates :
            LET attributes == NodeOfCandidate(c).attributes
                carries == \/ HasAttr(attributes, "disabled")
                           \/ getAttr(attributes, "aria-disabled") = "true"
            IN  /\ carries => ~elements[c].IsEnabled
                /\ (~carries /\ elements[c].BackendNodeID \notin DOMAIN axLookup)
                      => elements[c].IsEnabled

\* What a bare disabled attribute yields: the button is parsed as enabled.
C23_BareDisabledIsEnabled ==
    /\ Parsed
    /\ snapshotRes = SnapshotOf(<<DisabledNode(<< <<"disabled", "">> >>)>>)
    /\ axTreeRes = AXEmptyPayload
    /\ elements[1].IsEnabled

\* The candidates the filter loop removed in its containment branch: visible,
\* interactive, not occluded, and marked contained.
RemovedAsContained ==
    {c \in Candidates :
        /\ elements[c].IsVisible
        /\ elements[c].IsInteractive
        /\ ~elements[c].IsOccluded
        /\ elements[c].IsContained}

\* C24: whenever a visible interactive candidate is removed from the map
\* because it was marked contained, some other interactive candidate whose
\* box covers at least 99% of it is in the returned map.
C24_ContainerSurvives ==
    FromSnapshot =>
        \A c \in RemovedAsContained :
            \E p \in Candidates \ {c} :
                /\ elements[p].IsInteractive
                /\ Covers(p, c, 99)
                /\ InMap(elements[p].BackendNodeID)

\* A click-handling div inside a larger click-handling div of opacity 0: the
\* inner one is removed as contained, the outer one as hidden, and the map
\* is empty.
C24_ContainedInHiddenParent ==
    /\ FromSnapshot
    /\ Len(elements) = 2
    /\ RemovedAsContained # {}
    /\ \E p \in Candidates : elements[p].IsInteractive /\ ~elements[p].IsVisible
    /\ Len(M.Elements) = 0
    /\ M.FilteredByContain = 1
    /\ M.FilteredByHidden = 1

\* C25: with a browser that answers nothing more, once the caller's context
\* is cancelled ExtractEnhancedElementMap eventually returns, wherever it was
\* blocked (page info, snapshot call, AX-tree call).
C25_CancelReleasesCall ==
    (browser = "stuck" /\ ctxCancelled) ~> (pc = "done")

\* The two protocol calls and the scripted fallback are released: a cancelled
\* call that has got past page info returns.
C25_ProtocolCallsReleased ==
    (ctxCancelled /\ pc \notin {"idle", "info"}) ~> (pc = "done")

\* Blocked in page.Info() with the browser stuck and the context cancelled.
C25_BlockedInPageInfo ==
    /\ pc = "info"
    /\ browser = "stuck"
    /\ ctxCancelled

\* The elements of the given map that Annotate draws, and the box of the one
\* it draws when there is one.
Drawn ==
    IF IsSome(GivenMap)
    THEN {i \in 1..Len(Get(GivenMap)) :
            /\ Get(GivenMap)[i].IsVisible
            /\ ~IsEmptyBox(Get(GivenMap)[i].BoundingBox)}
    ELSE {}

TheBox == Get(GivenMap)[CHOOSE i \in Drawn : TRUE].BoundingBox
Cfg == Get(annArgs).cfg
OutBytes == Get(annRet.bytes)

\* Annotate returned a picture for a map with a single drawn element whose
\* box lies inside the picture and whose label fits above the box.
OneBoxInside ==
    /\ Annotated
    /\ IsSome(annRet.bytes)
    /\ Cardinality(Drawn) = 1
    /\ TheBox.X >= 0
    /\ TheBox.Y >= 0
    /\ TheBox.X + TheBox.Width <= ImgData.width
    /\ TheBox.Y + TheBox.Height <= ImgData.height
    /\ TheBox.Y - (Cfg.FontSize + 4) - 2 >= 0

\* The edges of the box within the picture, the four strips of borderWidth
\* pixels on them, the pixels strictly inside the strips, and the label
\* rectangle above the box (centred, moved into the picture when it
\* overhangs a side).
RightEdge == Min2(TheBox.X + TheBox.Width, ImgData.width - 1)
BottomEdge == Min2(TheBox.Y + TheBox.Height, ImgData.height - 1)

InBorderStrips(x, y) ==
    /\ TheBox.X <= x /\ x <= RightEdge
    /\ TheBox.Y <= y /\ y <= BottomEdge
    /\ \/ x - TheBox.X < Cfg.BorderWidth
       \/ RightEdge - x < Cfg.BorderWidth
       \/ y - TheBox.Y < Cfg.BorderWidth
       \/ BottomEdge - y < Cfg.BorderWidth

InsideBorder ==
    {<<x, y>> : x \in (TheBox.X + Cfg.BorderWidth)..(RightEdge - Cfg.BorderWidth),
                y \in (TheBox.Y + Cfg.BorderWidth)..(BottomEdge - Cfg.BorderWidth)}

InLabelAbove(x, y) ==
    LET labelWidth == (Cfg.FontSize * 7) \div 12 + 4
        labelHeight == Cfg.FontSize + 4
        centred == TheBox.X + TheBox.Width \div 2 - labelWidth \div 2
        left == Min2(Max2(centred, 0), ImgData.width - labelWidth)
    IN  /\ left <= x /\ x < left + labelWidth
        /\ TheBox.Y - 2 - labelHeight <= y /\ y < TheBox.Y - 2

\* The pixels some shape of the returned picture paints.  A shape paints
\* within its own rectangle only, so these are all the painted pixels.
PaintedPixels ==
    UNION {{<<x, y>> \in (OutBytes.marks[k].x0..OutBytes.marks[k].x1)
                            \X (OutBytes.marks[k].y0..OutBytes.marks[k].y1) :
                Paints(OutBytes.marks[k], x, y)} : k \in 1..Len(OutBytes.marks)}

\* C26 as stated, for any image: only pixels of the four border strips and of
\* the label rectangle above the box change, and every pixel strictly inside
\* the border keeps its original colour (x 52..128, y 52..88 for a 200x200
\* image, the box (50,50,80,40) and border width 2).
C26_OnlyBorderAndLabelChange ==
    OneBoxInside =>
        /\ OutBytes.exact
        /\ \A p \in PaintedPixels : InBorderStrips(p[1], p[2]) \/ InLabelAbove(p[1], p[2])
        /\ InsideBorder \cap PaintedPixels = {}
        /\ (ImgData.width = 200 /\ TheBox = Box(50, 50, 80, 40) /\ Cfg.BorderWidth = 2)
              => ((52..128) \X (52..88)) \cap PaintedPixels = {}

\* C26 for what Annotate draws, and for a PNG image: the shapes drawn paint
\* only pixels of the four border strips and of the label rectangle above the
\* box and no pixel strictly inside the border; the bytes returned for a PNG
\* image decode to exactly the canvas, so every other pixel keeps its
\* original colour.
C26_DrawingStaysOnBorderAndLabel ==
    OneBoxInside =>
        /\ SniffFormat(ImgData) = "png" => OutBytes.exact
        /\ \A p \in PaintedPixels : InBorderStrips(p[1], p[2]) \/ InLabelAbove(p[1], p[2])
        /\ InsideBorder \cap PaintedPixels = {}
        /\ (ImgData.width = 200 /\ TheBox = Box(50, 50, 80, 40) /\ Cfg.BorderWidth = 2)
              => /\ InsideBorder = (52..128) \X (52..88)
                 /\ ((52..128) \X (52..88)) \cap PaintedPixels = {}

\* The 200x200 PNG with the box (50,50,80,40) and border width 2: the border
\* and the label are painted, pixel (52,52) is not.
C26_Witness ==
    /\ OneBoxInside
    /\ ImgData = CapturedBytes("image/png", 200, 200)
    /\ TheBox = Box(50, 50, 80, 40)
    /\ Cfg.BorderWidth = 2
    /\ {<<50, 50>>, <<51, 51>>, <<130, 90>>, <<129, 89>>, <<85, 32>>} \subseteq PaintedPixels
    /\ <<52, 52>> \notin PaintedPixels
    /\ <<128, 88>> \notin PaintedPixels

\* A JPEG comes back re-encoded at quality 85 with colours that are not
\* exactly the canvas's.
C26_JPEGRequantised ==
    /\ OneBoxInside
    /\ SniffFormat(ImgData) = "jpeg"
    /\ ~OutBytes.exact

====
